---------------------------- MODULE Spec2Model ----------------------------
(***************************************************************************)
(* A model of the stock-analysis tool: the sentiment analysis and the      *)
(* recommendation fusion (analysis.py), the ticker recognizer (ocr.py),    *)
(* the chart detector (chart_detection.py) and the trigger handling and    *)
(* the pipeline of StockAnalyzer (main.py).                                *)
(*                                                                         *)
(* Percentages (trend, volume trend) are whole numbers; the sentiment      *)
(* score analyze_sentiment computes is kept as an exact ratio.             *)
(* Template-matching scores are in tenths (0.7 is 7).  Clock readings are  *)
(* in ticks, TicksPerSecond ticks to the second.                           *)
(***************************************************************************)
EXTENDS Integers, Sequences, FiniteSets, TLC

VARIABLES
    \* analysis.make_recommendation: its two arguments and its return value
    stock_data, sentiment_score, recommendation,
    \* analysis.analyze_stock: the headlines fetch_news returns, what the
    \* price provider answers, the return value of analyze_sentiment, the
    \* return value of analyze_stock and the number of fetch_stock_data calls
    headlines, provider, sentiment, result, price_fetches,
    \* the captured frame, as far as ocr.py and chart_detection.py read it
    img,
    \* ocr.detect_ticker: the template dict it is given, its return value and
    \* the number of match_character calls it made
    templates, ticker, match_calls,
    \* the number of times load_templates has filled the module's dict
    template_loads,
    \* ocr.match_character: the character image it is given and its return
    \* value; ocr.segment_characters: its return value
    char_img, match, char_contours,
    \* chart_detection.detect_chart: its return value
    verdict,
    \* main.py: the life cycle of the application, the clock time.time()
    \* reads, StockAnalyzer.last_trigger_time and the process_screen calls in
    \* progress (the position of each)
    app, now, last_trigger_time, invocations,
    \* the CTRL signals on_key_press has handled: the clock reading of each
    \* and whether it started process_screen
    signals,
    \* what the last process_screen call has sent to the overlay and the
    \* error messages it has logged
    overlay, errors

fusionVars == <<stock_data, sentiment_score, recommendation>>

analysisVars == <<headlines, provider, sentiment, result, price_fetches>>

ocrVars == <<templates, ticker, match_calls>>

matchVars == <<char_img, match, char_contours>>

mainVars == <<app, now, last_trigger_time, invocations, signals>>

sinkVars == <<overlay, errors>>

\* What the sub-specifications of ocr.py leave alone.
ocrRest == <<template_loads, char_img, match, char_contours>>

vars == <<stock_data, sentiment_score, recommendation,
          headlines, provider, sentiment, result, price_fetches, img,
          templates, ticker, match_calls, template_loads,
          char_img, match, char_contours, verdict,
          app, now, last_trigger_time, invocations, signals,
          overlay, errors>>

Min(a, b) == IF a <= b THEN a ELSE b

Max(a, b) == IF a >= b THEN a ELSE b

-----------------------------------------------------------------------------
(***************************************************************************)
(* analysis.py: the Price Snapshot and the recommendation fusion           *)
(***************************************************************************)

\* Largest magnitude of the 5-day trend (percent) the inputs are drawn from.
MaxTrend == 4

\* fetch_stock_data returns None on any failure (analysis.py:62-64).
NoStockData == [present |-> FALSE]

\* The dict fetch_stock_data returns (analysis.py:54-60), reduced to the two
\* keys make_recommendation and analyze_stock read.
StockData(trend, volume_trend) ==
    [present |-> TRUE, trend |-> trend, volume_trend |-> volume_trend]

TrendValues == (0 - MaxTrend) .. MaxTrend

VolumeTrendValues == {-10, 5, 20, 21, 25}

SentimentValues == {-100, -30, -21, -20, 0, 20, 21, 30, 50, 100}

StockDataValues ==
    {NoStockData} \cup
    {StockData(t, v) : t \in TrendValues, v \in VolumeTrendValues}

\* fuse_signals with `>=` in place of `>` in the trend test.
fuse_signals_inclusive_trend(sd, score) ==
    LET trend_signal == IF sd.trend >= 2 THEN "BUY"
                        ELSE IF sd.trend < -2 THEN "SELL" ELSE "NEUTRAL"
        c1 == IF trend_signal # "NEUTRAL" THEN 50 + 10 ELSE 50
        c2 == IF sd.volume_trend > 20 THEN c1 + 10 ELSE c1
        sentiment_signal == IF score > 20 THEN "BUY"
                            ELSE IF score < -20 THEN "SELL" ELSE "NEUTRAL"
        confidence == IF sentiment_signal # "NEUTRAL" THEN c2 + 15 ELSE c2
    IN  IF trend_signal = "BUY" /\ sentiment_signal = "BUY"
            THEN <<"BUY", Min(confidence + 15, 100)>>
        ELSE IF trend_signal = "SELL" /\ sentiment_signal = "SELL"
            THEN <<"SELL", Min(confidence + 15, 100)>>
        ELSE IF trend_signal = "BUY" /\ sentiment_signal # "SELL"
            THEN <<"BUY", confidence>>
        ELSE IF trend_signal = "SELL" /\ sentiment_signal # "BUY"
            THEN <<"SELL", confidence>>
        ELSE <<"HOLD", Max(confidence - 10, 50)>>

\* fuse_signals with the floor of the HOLD branch left out.
fuse_signals_no_floor(sd, score) ==
    LET trend_signal == IF sd.trend > 2 THEN "BUY"
                        ELSE IF sd.trend < -2 THEN "SELL" ELSE "NEUTRAL"
        c1 == IF trend_signal # "NEUTRAL" THEN 50 + 10 ELSE 50
        c2 == IF sd.volume_trend > 20 THEN c1 + 10 ELSE c1
        sentiment_signal == IF score > 20 THEN "BUY"
                            ELSE IF score < -20 THEN "SELL" ELSE "NEUTRAL"
        confidence == IF sentiment_signal # "NEUTRAL" THEN c2 + 15 ELSE c2
    IN  IF trend_signal = "BUY" /\ sentiment_signal = "BUY"
            THEN <<"BUY", Min(confidence + 15, 100)>>
        ELSE IF trend_signal = "SELL" /\ sentiment_signal = "SELL"
            THEN <<"SELL", Min(confidence + 15, 100)>>
        ELSE IF trend_signal = "BUY" /\ sentiment_signal # "SELL"
            THEN <<"BUY", confidence>>
        ELSE IF trend_signal = "SELL" /\ sentiment_signal # "BUY"
            THEN <<"SELL", confidence>>
        ELSE <<"HOLD", confidence - 10>>

\* The body of make_recommendation for a present snapshot
\* (analysis.py:174-209): the point accumulation and the final decision.
fuse_signals(sd, score) ==
    LET trend_signal == IF sd.trend > 2 THEN "BUY"
                        ELSE IF sd.trend < -2 THEN "SELL" ELSE "NEUTRAL"
        c1 == IF trend_signal # "NEUTRAL" THEN 50 + 10 ELSE 50
        c2 == IF sd.volume_trend > 20 THEN c1 + 10 ELSE c1
        sentiment_signal == IF score > 20 THEN "BUY"
                            ELSE IF score < -20 THEN "SELL" ELSE "NEUTRAL"
        confidence == IF sentiment_signal # "NEUTRAL" THEN c2 + 15 ELSE c2
    IN  IF trend_signal = "BUY" /\ sentiment_signal = "BUY"
            THEN <<"BUY", Min(confidence + 15, 100)>>
        ELSE IF trend_signal = "SELL" /\ sentiment_signal = "SELL"
            THEN <<"SELL", Min(confidence + 15, 100)>>
        ELSE IF trend_signal = "BUY" /\ sentiment_signal # "SELL"
            THEN <<"BUY", confidence>>
        ELSE IF trend_signal = "SELL" /\ sentiment_signal # "BUY"
            THEN <<"SELL", confidence>>
        ELSE <<"HOLD", Max(confidence - 10, 50)>>

\* make_recommendation with the absence test moved behind the sentiment
\* signal, so that an absent snapshot follows the sentiment.
make_recommendation_late_absence(sd, score) ==
    IF sd.present THEN fuse_signals(sd, score)
    ELSE IF score > 20 THEN <<"BUY", 65>>
    ELSE IF score < -20 THEN <<"SELL", 65>>
    ELSE <<"HOLD", 50>>

\* analysis.make_recommendation (analysis.py:159-213): `if not stock_data`
\* returns at once.  The except branch (211-213) is not reachable from a
\* snapshot that carries both keys.
make_recommendation(sd, score) ==
    IF ~sd.present THEN <<"HOLD", 50>> ELSE fuse_signals(sd, score)

\* POSITIVE_KEYWORDS (analysis.py:9-13).
POSITIVE_KEYWORDS ==
    {"buy", "bullish", "upgrade", "growth", "profit", "gain", "positive",
     "surge", "jump", "rise", "up", "higher", "strong", "success", "beat",
     "exceed", "outperform", "record"}

\* NEGATIVE_KEYWORDS (analysis.py:15-19).
NEGATIVE_KEYWORDS ==
    {"sell", "bearish", "downgrade", "loss", "negative", "decline", "drop",
     "fall", "down", "lower", "weak", "fail", "miss", "underperform",
     "bankruptcy", "debt", "risk"}

\* A headline is read by `word in headline` alone (analysis.py:134-135): the
\* model keeps of a lowercased headline the set of keywords it contains.
\* A headline that contains "upgrade" or "bankruptcy" contains "up", and one
\* that contains "downgrade" contains "down".
IsHeadline(h) ==
    /\ h \subseteq POSITIVE_KEYWORDS \cup NEGATIVE_KEYWORDS
    /\ ("upgrade" \in h \/ "bankruptcy" \in h) => "up" \in h
    /\ "downgrade" \in h => "down" \in h

\* pos_count - neg_count of one headline (analysis.py:134-138).
HeadlineScore(h) ==
    LET pos_count == Cardinality(h \cap POSITIVE_KEYWORDS)
        neg_count == Cardinality(h \cap NEGATIVE_KEYWORDS)
    IN  pos_count - neg_count

\* total_score after the loop over the headlines (analysis.py:129-139).
RECURSIVE TotalScore(_)
TotalScore(hl) ==
    IF hl = << >> THEN 0 ELSE HeadlineScore(Head(hl)) + TotalScore(Tail(hl))

Abs(a) == IF a < 0 THEN 0 - a ELSE a

RECURSIVE GCD(_, _)
GCD(a, b) == IF b = 0 THEN a ELSE GCD(b, a % b)

\* The number num / den (den > 0) in lowest terms: the model keeps the
\* float analyze_sentiment computes exact.
Ratio(num, den) ==
    LET g == GCD(Abs(num), den)
    IN  [num |-> num \div g, den |-> den \div g]

\* r > k and r < k for a ratio r and a whole number k.
Greater(r, k) == r.num > k * r.den

Less(r, k) == r.num < k * r.den

\* The labelling with the two bounds included.
sentiment_label_inclusive(normalized_score) ==
    IF ~Less(normalized_score, 20) THEN "Positive"
    ELSE IF ~Greater(normalized_score, -20) THEN "Negative"
    ELSE "Neutral"

\* The label of a normalized score (analysis.py:145-151).
sentiment_label(normalized_score) ==
    IF Greater(normalized_score, 20) THEN "Positive"
    ELSE IF Less(normalized_score, -20) THEN "Negative"
    ELSE "Neutral"

\* The normalization of analyze_sentiment (analysis.py:141-143): three
\* keywords a headline are taken for the most.
normalize(total_score, hl) ==
    LET max_possible == Max(Len(hl) * 3, 1)
    IN  Ratio(total_score * 100, max_possible)

\* analyze_sentiment that answers an empty list without a label.
analyze_sentiment_unlabelled(hl) ==
    IF hl = << >> THEN <<Ratio(0, 1), "Unknown">>
    ELSE LET normalized_score == normalize(TotalScore(hl), hl)
         IN  <<normalized_score, sentiment_label(normalized_score)>>

\* analysis.analyze_sentiment (analysis.py:115-157) on a list of strings:
\* the pair (normalized score, label).
analyze_sentiment(hl) ==
    IF hl = << >> THEN <<Ratio(0, 1), "Neutral">>
    ELSE LET normalized_score == normalize(TotalScore(hl), hl)
         IN  <<normalized_score, sentiment_label(normalized_score)>>

\* make_recommendation reads of the sentiment score the two tests
\* score > 20 and score < -20 (analysis.py:191-198).  The whole number
\* next to a ratio, away from zero, passes the two tests as the ratio does.
WholePercent(r) ==
    IF r.num >= 0 THEN (r.num + r.den - 1) \div r.den
    ELSE 0 - ((r.den - r.num - 1) \div r.den)

\* A value or None, for the keys of the result that may hold None.
Some(x) == <<x>>

Null == << >>

\* analyze_stock that reports a flat trend for a missing snapshot.
analyze_stock_flat_trend(tk, sd, hl) ==
    LET s == analyze_sentiment(hl)
        r == make_recommendation(sd, WholePercent(s[1]))
    IN  [ticker |-> tk, recommendation |-> r[1], confidence |-> r[2],
         sentiment |-> s[2], price_data |-> sd,
         metadata |-> [news_count |-> Len(hl), sentiment_score |-> s[1],
                       price_trend |->
                           IF sd.present THEN Some(sd.trend) ELSE Some(0),
                       volume_trend |->
                           IF sd.present THEN Some(sd.volume_trend)
                           ELSE Some(0)]]

\* analysis.analyze_stock (analysis.py:215-275) on the ticker, the answer
\* sd of fetch_stock_data and the headlines hl of fetch_news: the result
\* dict, without its timestamp.  fetch_stock_data and fetch_news catch
\* their own exceptions (analysis.py:62-64, 111-113).
analyze_stock(tk, sd, hl) ==
    LET s == analyze_sentiment(hl)
        r == make_recommendation(sd, WholePercent(s[1]))
    IN  [ticker |-> tk, recommendation |-> r[1], confidence |-> r[2],
         sentiment |-> s[2], price_data |-> sd,
         metadata |-> [news_count |-> Len(hl), sentiment_score |-> s[1],
                       price_trend |->
                           IF sd.present THEN Some(sd.trend) ELSE Null,
                       volume_trend |->
                           IF sd.present THEN Some(sd.volume_trend)
                           ELSE Null]]

\* Most headlines fetch_news returns (analysis.py:85, 100).
MaxHeadlines == 5

\* The headlines the inputs are drawn from: one without keywords, "Shares
\* surge", "Analysts downgrade the stock" and "Strong profit growth, record
\* gain".
HeadlineValues ==
    { h \in { {}, {"surge"}, {"downgrade", "down"},
              {"strong", "profit", "growth", "record", "gain"} } :
          IsHeadline(h) }

NoSentiment == <<Ratio(0, 1), "NONE">>

NoResult == [ticker |-> <<"NONE">>]

-----------------------------------------------------------------------------
(***************************************************************************)
(* ocr.py: templates, segmentation, classification, ticker recognition     *)
(***************************************************************************)

\* config.py: the size bounds of a character box, in pixels, and the
\* acceptance threshold of a template match (0.7, in tenths).
MIN_CHAR_WIDTH == 20

MAX_CHAR_WIDTH == 50

MIN_CHAR_HEIGHT == 30

MAX_CHAR_HEIGHT == 60

OCR_MATCH_THRESHOLD == 7

\* Python's None, as a character.
None == "None"

\* The characters load_templates iterates over, in its order (ocr.py:27).
Alphabet ==
    <<"A", "B", "C", "D", "E", "F", "G", "H", "I", "J", "K", "L", "M",
      "N", "O", "P", "Q", "R", "S", "T", "U", "V", "W", "X", "Y", "Z",
      "0", "1", "2", "3", "4", "5", "6", "7", "8", "9">>

\* A template dict in insertion order; each template is its key and the
\* shape (rows, cols) of its array.
TemplateDict(rows, cols) ==
    [i \in 1 .. Len(Alphabet) |->
        [char |-> Alphabet[i], rows |-> rows, cols |-> cols]]

\* What load_templates returns (ocr.py:24-41): np.zeros((30, 40)) is an
\* array of 30 rows and 40 columns for each of the 36 characters.
load_templates == TemplateDict(30, 40)

\* What load_templates returns when it fails (ocr.py:43-45).
EmptyTemplates == << >>

\* A template dict whose arrays have the shape of the resized glyph.
CanvasTemplates == TemplateDict(40, 30)

\* A glyph is the content of one character box.  It is described by the
\* correlation (tenths) it has with each template character: s1 with c1, s2
\* with c2 and 0 with every other character.
Glyph(c1, s1, c2, s2) == [c1 |-> c1, s1 |-> s1, c2 |-> c2, s2 |-> s2]

Correlation(glyph, char) ==
    IF char = glyph.c1 THEN glyph.s1
    ELSE IF char = glyph.c2 THEN glyph.s2
    ELSE 0

\* cv2.matchTemplate(char_img, template, ...) at ocr.py:141-145, where
\* char_img was resized to 40 rows by 30 columns (ocr.py:137): OpenCV
\* rejects a template that is larger than the image in one dimension and
\* smaller in the other.
MatchTemplateRaises(template) ==
    /\ (40 < template.rows \/ 30 < template.cols)
    /\ ~(40 <= template.rows /\ 30 <= template.cols)

\* The loop of match_character (ocr.py:133-150) from template i on, with the
\* best match so far; "raise" when matchTemplate raised.
RECURSIVE BestMatch(_, _, _, _, _)
BestMatch(glyph, tmpl, i, best_match, best_val) ==
    IF i > Len(tmpl) THEN <<best_match, best_val>>
    ELSE IF MatchTemplateRaises(tmpl[i]) THEN <<"raise", 0>>
    ELSE LET max_val == Correlation(glyph, tmpl[i].char)
         IN  IF max_val > best_val
                 THEN BestMatch(glyph, tmpl, i + 1, tmpl[i].char, max_val)
                 ELSE BestMatch(glyph, tmpl, i + 1, best_match, best_val)

\* ocr.match_character (ocr.py:121-158): (character, score) of the best
\* template, or (None, 0) below the threshold and on any exception.
match_character(glyph, tmpl) ==
    LET best == BestMatch(glyph, tmpl, 1, None, -10)
    IN  IF best[1] = "raise" THEN <<None, 0>>
        ELSE IF best[2] >= OCR_MATCH_THRESHOLD THEN best
        ELSE <<None, 0>>

\* A contour's bounding rectangle (ocr.py:107) and the glyph inside it.
Contour(x, w, h, glyph) == [x |-> x, w |-> w, h |-> h, glyph |-> glyph]

\* The size test of segment_characters (ocr.py:108-109).
IsCharSized(c) ==
    /\ MIN_CHAR_WIDTH <= c.w /\ c.w <= MAX_CHAR_WIDTH
    /\ MIN_CHAR_HEIGHT <= c.h /\ c.h <= MAX_CHAR_HEIGHT

\* The filter loop of segment_characters (ocr.py:105-110).
RECURSIVE FilterContours(_)
FilterContours(cs) ==
    IF cs = << >> THEN << >>
    ELSE IF IsCharSized(Head(cs))
        THEN <<Head(cs)>> \o FilterContours(Tail(cs))
    ELSE FilterContours(Tail(cs))

\* list.sort(key=x): a stable sort; c goes behind every element whose key
\* is not larger.
RECURSIVE InsertByX(_, _)
InsertByX(sorted, c) ==
    IF sorted = << >> THEN <<c>>
    ELSE IF Head(sorted).x <= c.x
        THEN <<Head(sorted)>> \o InsertByX(Tail(sorted), c)
    ELSE <<c>> \o sorted

RECURSIVE SortByX(_)
SortByX(cs) ==
    IF cs = << >> THEN << >>
    ELSE InsertByX(SortByX(SubSeq(cs, 1, Len(cs) - 1)), cs[Len(cs)])

\* segment_characters without the sort.
segment_characters_unsorted(cs) == FilterContours(cs)

\* segment_characters whose size bounds are exclusive.
segment_characters_exclusive(cs) ==
    SortByX(SelectSeq(cs, LAMBDA c :
        /\ MIN_CHAR_WIDTH < c.w /\ c.w < MAX_CHAR_WIDTH
        /\ MIN_CHAR_HEIGHT < c.h /\ c.h < MAX_CHAR_HEIGHT))

\* ocr.segment_characters (ocr.py:86-119) on the contours of the image.
segment_characters(cs) == SortByX(FilterContours(cs))

\* The matching loop with `continue` where the code returns "": a region
\* without a match is left out.
RECURSIVE MatchRegionsSkipping(_, _, _, _)
MatchRegionsSkipping(char_regions, tmpl, i, acc) ==
    IF i > Len(char_regions) THEN [ticker |-> acc, calls |-> i - 1]
    ELSE LET m == match_character(char_regions[i].glyph, tmpl)
         IN  MatchRegionsSkipping(char_regions, tmpl, i + 1,
                 IF m[1] # None THEN Append(acc, m[1]) ELSE acc)

\* The matching loop of detect_ticker (ocr.py:187-197) from region i on:
\* the ticker and the number of match_character calls made.
RECURSIVE MatchRegions(_, _, _, _)
MatchRegions(char_regions, tmpl, i, acc) ==
    IF i > Len(char_regions) THEN [ticker |-> acc, calls |-> i - 1]
    ELSE LET m == match_character(char_regions[i].glyph, tmpl)
         IN  IF m[1] # None
                 THEN MatchRegions(char_regions, tmpl, i + 1, Append(acc, m[1]))
                 ELSE [ticker |-> << >>, calls |-> i]

\* detect_ticker whose length gate has lost its upper bound.
detect_ticker_no_upper_gate(image, tmpl) ==
    IF ~image.valid THEN [ticker |-> << >>, calls |-> 0]
    ELSE LET char_regions == segment_characters(image.contours)
         IN  IF char_regions = << >> THEN [ticker |-> << >>, calls |-> 0]
             ELSE IF ~(3 <= Len(char_regions))
                 THEN [ticker |-> << >>, calls |-> 0]
             ELSE MatchRegions(char_regions, tmpl, 1, << >>)

\* ocr.detect_ticker (ocr.py:160-201).  The ticker is a sequence of
\* characters; << >> is the empty string.
detect_ticker(image, tmpl) ==
    IF ~image.valid THEN [ticker |-> << >>, calls |-> 0]
    ELSE LET char_regions == segment_characters(image.contours)
         IN  IF char_regions = << >> THEN [ticker |-> << >>, calls |-> 0]
             ELSE IF ~(3 <= Len(char_regions) /\ Len(char_regions) <= 5)
                 THEN [ticker |-> << >>, calls |-> 0]
             ELSE MatchRegions(char_regions, tmpl, 1, << >>)

\* Most contours findContours yields in the frames the inputs are drawn from.
MaxContours == 6

\* A clear "A"; a "B" that correlates at exactly the threshold; a blurred
\* glyph whose best correlation is below the threshold.
GlyphA == Glyph("A", 9, "B", 3)

GlyphB == Glyph("B", 7, "8", 5)

GlyphBlur == Glyph("A", 6, "4", 6)

\* The contours the frames are made of: three character-sized boxes (two of
\* them on the size bounds) and one box that is too narrow.
ContourValues ==
    { Contour(3, 30, 40, GlyphA), Contour(1, 20, 30, GlyphB),
      Contour(2, 50, 60, GlyphBlur), Contour(2, 19, 40, GlyphA) }

SeqsUpTo(S, n) == UNION {[1 .. k -> S] : k \in 0 .. n}

-----------------------------------------------------------------------------
(***************************************************************************)
(* chart_detection.py: line pattern, grid pattern, chart verdict           *)
(***************************************************************************)

\* `lines` is the sequence of the segments' angles in degrees
\* (chart_detection.py:59).  cv2.HoughLinesP returns None, not an empty
\* array, when it finds no segment, and detect_lines returns None when it
\* fails: << >> stands for None.
RECURSIVE CountIn(_, _, _)
CountIn(angles, lo, hi) ==
    IF angles = << >> THEN 0
    ELSE (IF lo <= Head(angles) /\ Head(angles) <= hi THEN 1 ELSE 0)
         + CountIn(Tail(angles), lo, hi)

\* analyze_line_pattern with the confidence rounded to the nearest whole
\* number.
analyze_line_pattern_rounding(lines) ==
    IF lines = << >> \/ Len(lines) < 5 THEN <<FALSE, 0>>
    ELSE LET horizontal == CountIn(lines, -30, 30)
             vertical == CountIn(lines, 60, 120)
             total_lines == Len(lines)
         IN  IF 5 * horizontal > 3 * total_lines
                /\ 10 * vertical < 3 * total_lines
                 THEN <<TRUE, Min(100, (200 * horizontal + total_lines)
                                           \div (2 * total_lines))>>
                 ELSE <<FALSE, 0>>

\* chart_detection.analyze_line_pattern (chart_detection.py:41-83):
\* (is_chart, confidence).  horizontal / total > 0.6 is 5 * horizontal >
\* 3 * total, vertical / total < 0.3 is 10 * vertical < 3 * total, and
\* int(ratio * 100) truncates.
analyze_line_pattern(lines) ==
    IF lines = << >> \/ Len(lines) < 5 THEN <<FALSE, 0>>
    ELSE LET horizontal == CountIn(lines, -30, 30)
             vertical == CountIn(lines, 60, 120)
             total_lines == Len(lines)
         IN  IF 5 * horizontal > 3 * total_lines
                /\ 10 * vertical < 3 * total_lines
                 THEN <<TRUE, Min(100, (horizontal * 100) \div total_lines)>>
                 ELSE <<FALSE, 0>>

\* chart_detection.detect_grid_pattern (chart_detection.py:85-135), on the
\* number of four-cornered contours of the image.
detect_grid_pattern(image) == image.valid /\ image.rect_count > 5

\* The dict `metadata` of detect_chart (chart_detection.py:162-166), as
\* <<num_lines, has_grid, line_confidence>>; << >> is the empty dict.
Metadata(num_lines, has_grid, line_confidence) ==
    <<num_lines, has_grid, line_confidence>>

Verdict(is_chart, confidence, metadata) ==
    [is_chart |-> is_chart, confidence |-> confidence, metadata |-> metadata]

\* chart_detection.detect_lines (chart_detection.py:5-39).
detect_lines(image) == IF image.valid THEN image.lines ELSE << >>

\* chart_detection.detect_chart (chart_detection.py:137-182).
detect_chart(image) ==
    LET lines == detect_lines(image)
    IN  IF lines = << >> THEN Verdict(FALSE, 0, << >>)
        ELSE LET line == analyze_line_pattern(lines)
                 has_grid == detect_grid_pattern(image)
                 metadata == Metadata(Len(lines), has_grid, line[2])
                 confidence == IF has_grid THEN Min(100, line[2] + 20)
                               ELSE line[2]
             IN  IF line[1] /\ confidence >= 60
                     THEN Verdict(TRUE, confidence, metadata)
                     ELSE Verdict(FALSE, confidence, metadata)

-----------------------------------------------------------------------------
(***************************************************************************)
(* The frame, and the states before a call has returned                    *)
(***************************************************************************)

\* The captured frame: whether it is a readable image, its contours in the
\* order cv2.findContours yields them (ocr.py:98), the angles of its line
\* segments (chart_detection.py:26) and the number of its four-cornered
\* contours (chart_detection.py:120-128).
Frame(valid, contours, lines, rect_count) ==
    [valid |-> valid, contours |-> contours, lines |-> lines,
     rect_count |-> rect_count]

\* capture_screen returns None when it fails (screenshot.py:34-36).
NoImage == Frame(FALSE, << >>, << >>, 0)

\* The values of the results before the call has returned.
NoRecommendation == <<"NONE", 0>>

NoTicker == <<"NONE">>

NoVerdict == Verdict(FALSE, -1, << >>)

\* Most line segments in the frames the inputs are drawn from.
MaxLines == 6

AngleValues == {-30, 0, 45, 90}

RectCountValues == {5, 6}

FusionIdle ==
    /\ stock_data = NoStockData
    /\ sentiment_score = 0
    /\ recommendation = NoRecommendation

AnalysisIdle ==
    /\ headlines = << >>
    /\ provider = NoStockData
    /\ sentiment = NoSentiment
    /\ result = NoResult
    /\ price_fetches = 0

NoGlyph == Glyph(None, 0, None, 0)

NotMatched == <<"PENDING", 0>>

MatchIdle ==
    /\ char_img = NoGlyph
    /\ match = NotMatched
    /\ char_contours = << >>

\* ocr.py fills its dict when the module is imported (ocr.py:203-204).
OcrIdle ==
    /\ templates = load_templates
    /\ template_loads = 1
    /\ ticker = NoTicker
    /\ match_calls = 0
    /\ MatchIdle

\* Nothing sent to the overlay, nothing logged.
NoOverlay ==
    [status |-> "", ticker |-> NoTicker, recommendation |-> NoRecommendation]

SinkIdle ==
    /\ overlay = NoOverlay
    /\ errors = {}

ChartIdle == verdict = NoVerdict

\* Clock ticks to the second.
TicksPerSecond == 2

\* StockAnalyzer.trigger_cooldown = 1.0 seconds (main.py:22).
trigger_cooldown == 1 * TicksPerSecond

\* time.time() counts the seconds since 1970: the first reading is far
\* beyond the cooldown.  The clock of the model starts just beyond it.
StartTime == trigger_cooldown + 1

\* The state StockAnalyzer.__init__ leaves (main.py:16-22).
MainIdle ==
    /\ app = "constructed"
    /\ now = StartTime
    /\ last_trigger_time = 0
    /\ invocations = << >>
    /\ signals = << >>
    /\ SinkIdle

-----------------------------------------------------------------------------
(***************************************************************************)
(* make_recommendation on every snapshot and sentiment score               *)
(***************************************************************************)

FusionInit ==
    /\ MainIdle
    /\ AnalysisIdle
    /\ img = NoImage
    /\ OcrIdle
    /\ ChartIdle
    /\ stock_data \in StockDataValues
    /\ sentiment_score \in SentimentValues
    /\ recommendation = NoRecommendation

\* One call rec, conf = make_recommendation(stock_data, sentiment_score).
CallMakeRecommendation ==
    /\ recommendation = NoRecommendation
    /\ recommendation' = make_recommendation(stock_data, sentiment_score)
    /\ UNCHANGED <<stock_data, sentiment_score, analysisVars, img, ocrVars,
                   ocrRest, verdict, mainVars, sinkVars>>

FusionNext == CallMakeRecommendation

SpecFusion == FusionInit /\ [][FusionNext]_vars

-----------------------------------------------------------------------------
(***************************************************************************)
(* detect_ticker on every frame and template dict                          *)
(***************************************************************************)

OcrInit ==
    /\ MainIdle
    /\ FusionIdle
    /\ AnalysisIdle
    /\ MatchIdle
    /\ template_loads = 1
    /\ ChartIdle
    /\ img \in {Frame(TRUE, cs, << >>, 0) :
                    cs \in SeqsUpTo(ContourValues, MaxContours)}
                \cup {NoImage}
    /\ templates \in {load_templates, EmptyTemplates, CanvasTemplates}
    /\ ticker = NoTicker
    /\ match_calls = 0

\* One call ticker = detect_ticker(img, templates).
CallDetectTicker ==
    /\ ticker = NoTicker
    /\ LET r == detect_ticker(img, templates)
       IN  /\ ticker' = r.ticker
           /\ match_calls' = r.calls
    /\ UNCHANGED <<fusionVars, analysisVars, img, templates, ocrRest,
                   verdict, mainVars, sinkVars>>

OcrNext == CallDetectTicker

SpecOcr == OcrInit /\ [][OcrNext]_vars

-----------------------------------------------------------------------------
(***************************************************************************)
(* detect_chart on every frame                                             *)
(***************************************************************************)

ChartInit ==
    /\ MainIdle
    /\ FusionIdle
    /\ AnalysisIdle
    /\ OcrIdle
    /\ img \in {Frame(TRUE, << >>, ls, n) :
                    ls \in SeqsUpTo(AngleValues, MaxLines),
                    n \in RectCountValues}
                \cup {NoImage}
    /\ verdict = NoVerdict

\* One call is_chart, confidence, metadata = detect_chart(img).
CallDetectChart ==
    /\ verdict = NoVerdict
    /\ verdict' = detect_chart(img)
    /\ UNCHANGED <<fusionVars, analysisVars, img, ocrVars, ocrRest,
                   mainVars, sinkVars>>

ChartNext == CallDetectChart

SpecChart == ChartInit /\ [][ChartNext]_vars

-----------------------------------------------------------------------------
(***************************************************************************)
(* analyze_stock on every ticker, provider answer and headline list        *)
(***************************************************************************)

\* The tickers the inputs are drawn from.
TickerValues == { <<"A", "A", "B">>, <<"B">> }

\* The snapshots the price provider answers with in the model: None for a
\* failure.
ProviderValues ==
    {NoStockData, StockData(3, 25), StockData(-3, 5), StockData(0, 0)}

\* One call analyze_stock(tk) (analysis.py:215-275) with sd the answer of
\* the one fetch_stock_data call (analysis.py:240) and hl the headlines.
AnalyzeStockCall(tk, sd, hl) ==
    LET res == analyze_stock(tk, sd, hl)
    IN  /\ price_fetches' = price_fetches + 1
        /\ stock_data' = sd
        /\ sentiment' = analyze_sentiment(hl)
        /\ sentiment_score' = WholePercent(analyze_sentiment(hl)[1])
        /\ recommendation' = <<res.recommendation, res.confidence>>
        /\ result' = res

AnalysisInit ==
    /\ MainIdle
    /\ OcrIdle
    /\ ChartIdle
    /\ FusionIdle
    /\ img = NoImage
    /\ headlines \in SeqsUpTo(HeadlineValues, MaxHeadlines)
    /\ provider \in ProviderValues
    /\ sentiment = NoSentiment
    /\ result = NoResult
    /\ price_fetches = 0

\* The ticker is the argument of the call; the model draws it when the
\* call is made.
CallAnalyzeStock ==
    /\ result = NoResult
    /\ \E tk \in TickerValues :
        /\ ticker' = tk
        /\ AnalyzeStockCall(tk, provider, headlines)
    /\ UNCHANGED <<headlines, provider, img, templates, match_calls, ocrRest,
                   verdict, mainVars, sinkVars>>

AnalysisNext == CallAnalyzeStock

SpecAnalysis == AnalysisInit /\ [][AnalysisNext]_vars

-----------------------------------------------------------------------------
(***************************************************************************)
(* match_character on every character image and template dict              *)
(***************************************************************************)

\* The correlation scores (in tenths) the character images are drawn
\* from: below, at and above the threshold.
MatchScoreValues == {6, 7, 8}

\* The character images: each correlates with one of "B", "0" and with one
\* of "A", "Z", and not at all with the other templates.
MatchGlyphValues ==
    { Glyph(c1, s1, c2, s2) :
          c1 \in {"B", "0"}, c2 \in {"A", "Z"},
          s1 \in MatchScoreValues, s2 \in MatchScoreValues }

MatchInit ==
    /\ MainIdle
    /\ FusionIdle
    /\ AnalysisIdle
    /\ ChartIdle
    /\ img = NoImage
    /\ templates \in {load_templates, EmptyTemplates, CanvasTemplates}
    /\ template_loads = 1
    /\ ticker = NoTicker
    /\ match_calls = 0
    /\ char_img \in MatchGlyphValues
    /\ match = NotMatched
    /\ char_contours = << >>

\* One call char, confidence = match_character(char_img, templates).
CallMatchCharacter ==
    /\ match = NotMatched
    /\ match' = match_character(char_img, templates)
    /\ UNCHANGED <<fusionVars, analysisVars, img, ocrVars, template_loads,
                   char_img, char_contours, verdict, mainVars, sinkVars>>

MatchNext == CallMatchCharacter

SpecMatch == MatchInit /\ [][MatchNext]_vars

-----------------------------------------------------------------------------
(***************************************************************************)
(* segment_characters on every list of bounding boxes                      *)
(***************************************************************************)

\* Most contours in the images segment_characters is given.
MaxBoxes == 3

\* The bounding boxes: on the four size bounds, one beyond each bound,
\* and two boxes at the same x that overlap.
BoxValues ==
    { Contour(2, 20, 30, GlyphA), Contour(1, 50, 60, GlyphB),
      Contour(1, 19, 30, GlyphA), Contour(2, 51, 60, GlyphA),
      Contour(3, 20, 29, GlyphB), Contour(3, 50, 61, GlyphB),
      Contour(1, 30, 40, GlyphA) }

\* No list returned yet.
NotSegmented == <<Contour(-1, 0, 0, NoGlyph)>>

SegmentInit ==
    /\ MainIdle
    /\ FusionIdle
    /\ AnalysisIdle
    /\ ChartIdle
    /\ img \in {Frame(TRUE, cs, << >>, 0) : cs \in SeqsUpTo(BoxValues, MaxBoxes)}
    /\ templates = load_templates
    /\ template_loads = 1
    /\ ticker = NoTicker
    /\ match_calls = 0
    /\ char_img = NoGlyph
    /\ match = NotMatched
    /\ char_contours = NotSegmented

\* One call char_contours = segment_characters(img).
CallSegmentCharacters ==
    /\ char_contours = NotSegmented
    /\ char_contours' = segment_characters(img.contours)
    /\ UNCHANGED <<fusionVars, analysisVars, img, ocrVars, template_loads,
                   char_img, match, verdict, mainVars, sinkVars>>

SegmentNext == CallSegmentCharacters

SpecSegment == SegmentInit /\ [][SegmentNext]_vars

-----------------------------------------------------------------------------
(***************************************************************************)
(* main.py: StockAnalyzer, from construction to stop                       *)
(***************************************************************************)

\* Clock ticks the model follows the application for.
Horizon == 6

\* Most CTRL signals the model follows.
MaxSignals == 3

\* The frames capture_screen returns in the model: a chart with a grid and
\* three character boxes, a chart without grid and with a blurred box, and
\* a frame with neither lines nor boxes.
ScreenValues ==
    { Frame(TRUE,
            <<Contour(3, 30, 40, GlyphA), Contour(1, 20, 30, GlyphB),
              Contour(2, 30, 40, GlyphA)>>,
            <<0, 0, 0, 0, 0, 90>>, 6),
      Frame(TRUE,
            <<Contour(1, 30, 40, GlyphA), Contour(2, 50, 60, GlyphBlur),
              Contour(3, 30, 40, GlyphB), Contour(4, 30, 40, GlyphB)>>,
            <<0, 0, 0, 0, 45>>, 0),
      Frame(TRUE, << >>, <<90, 90>>, 6) }

\* The headline lists fetch_news returns in the model.
NewsValues == { << >>, <<{"surge"}>>, <<{"downgrade", "down"}, {}>> }

Init ==
    /\ FusionIdle
    /\ AnalysisIdle
    /\ OcrIdle
    /\ ChartIdle
    /\ MainIdle
    /\ img = NoImage

\* on_key_press that hands process_screen to a thread of its own and
\* returns at once.
ListenerNeverBusy == FALSE

\* The keyboard listener runs its callbacks one after the other on its own
\* thread, and on_key_press calls process_screen itself (main.py:63): the
\* next key event is handled when the handler has returned.
ListenerBusy == invocations # << >>

\* The cooldown test with half the cooldown.
InCooldownHalved(current_time, last) ==
    2 * (current_time - last) < trigger_cooldown

\* The cooldown test of on_key_press (main.py:59).
InCooldown(current_time, last) == current_time - last < trigger_cooldown

\* What is left alone outside process_screen.
pipelineVars ==
    <<fusionVars, analysisVars, img, ticker, match_calls, char_img, match,
      char_contours, verdict, sinkVars>>

\* StockAnalyzer.setup (main.py:24-49): it loads the templates again and
\* creates the overlay and the listener.  load_templates writes the
\* module's dict entry by entry (ocr.py:27-38); when it fails it returns an
\* empty dict, with the module's dict written or not (ocr.py:43-45).
setup ==
    /\ app = "constructed"
    /\ \/ /\ templates' = load_templates
          /\ template_loads' = template_loads + 1
       \/ /\ templates' = EmptyTemplates
          /\ template_loads' \in {template_loads, template_loads + 1}
    /\ app' = "ready"
    /\ UNCHANGED <<pipelineVars, now, last_trigger_time, invocations, signals>>

\* setup returns False on an exception; main then stops (main.py:183-192).
setup_fails ==
    /\ app = "constructed"
    /\ app' = "stopped"
    /\ UNCHANGED <<pipelineVars, templates, template_loads,
                   now, last_trigger_time, invocations, signals>>

\* run that loads the templates once more before it starts the listener.
run_reloading ==
    /\ app = "ready"
    /\ app' = "running"
    /\ template_loads' = template_loads + 1
    /\ UNCHANGED <<pipelineVars, templates,
                   now, last_trigger_time, invocations, signals>>

\* StockAnalyzer.run (main.py:135-148): the listener starts.
run ==
    /\ app = "ready"
    /\ app' = "running"
    /\ UNCHANGED <<pipelineVars, templates, template_loads,
                   now, last_trigger_time, invocations, signals>>

\* The clock advances.
Tick ==
    /\ now < StartTime + Horizon
    /\ now' = now + 1
    /\ UNCHANGED <<pipelineVars, templates, template_loads,
                   app, last_trigger_time, invocations, signals>>

\* StockAnalyzer.stop (main.py:156-172): the listener stops and the
\* overlay closes.  A process_screen call in progress goes on.
StopApp ==
    /\ app' = "stopped"
    /\ UNCHANGED <<pipelineVars, templates, template_loads,
                   now, last_trigger_time, invocations, signals>>

\* The keys the listener reports.
Keys == {"ctrl_l", "ctrl_r", "esc", "other"}

\* The locals of a process_screen call that starts, and nothing sent or
\* logged by it yet.
FreshInvocation ==
    /\ img' = NoImage
    /\ ticker' = NoTicker
    /\ match_calls' = 0
    /\ verdict' = NoVerdict
    /\ stock_data' = NoStockData
    /\ sentiment_score' = 0
    /\ recommendation' = NoRecommendation
    /\ headlines' = << >>
    /\ provider' = NoStockData
    /\ sentiment' = NoSentiment
    /\ result' = NoResult
    /\ price_fetches' = 0
    /\ overlay' = NoOverlay
    /\ errors' = {}

\* on_key_press that records the time of an ignored signal as well: the
\* window slides with every key press.
on_key_press_sliding(key) ==
    /\ app = "running"
    /\ ~ListenerBusy
    /\ IF key \in {"ctrl_l", "ctrl_r"} THEN
           /\ Len(signals) < MaxSignals
           /\ LET current_time == now
              IN  IF InCooldown(current_time, last_trigger_time)
                      THEN /\ signals' = Append(signals,
                                   [time |-> current_time, accepted |-> FALSE])
                           /\ last_trigger_time' = current_time
                           /\ UNCHANGED <<invocations,
                                          fusionVars, analysisVars, img,
                                          ticker, match_calls, verdict,
                                          sinkVars>>
                      ELSE /\ last_trigger_time' = current_time
                           /\ invocations' = Append(invocations, "capture")
                           /\ signals' = Append(signals,
                                   [time |-> current_time, accepted |-> TRUE])
                           /\ FreshInvocation
           /\ UNCHANGED <<templates, template_loads, char_img, match,
                          char_contours, app, now>>
       ELSE IF key = "esc" THEN StopApp
       ELSE UNCHANGED vars

\* StockAnalyzer.on_key_press (main.py:51-70).  For a CTRL key inside the
\* cooldown it returns; otherwise it records the time and enters
\* process_screen, whose locals are fresh.  The escape key stops the
\* application, any other key does nothing.
on_key_press(key) ==
    /\ app = "running"
    /\ ~ListenerBusy
    /\ IF key \in {"ctrl_l", "ctrl_r"} THEN
           /\ Len(signals) < MaxSignals
           /\ LET current_time == now
              IN  IF InCooldown(current_time, last_trigger_time)
                      THEN /\ signals' = Append(signals,
                                   [time |-> current_time, accepted |-> FALSE])
                           /\ UNCHANGED <<last_trigger_time, invocations,
                                          fusionVars, analysisVars, img,
                                          ticker, match_calls, verdict,
                                          sinkVars>>
                      ELSE /\ last_trigger_time' = current_time
                           /\ invocations' = Append(invocations, "capture")
                           /\ signals' = Append(signals,
                                   [time |-> current_time, accepted |-> TRUE])
                           /\ FreshInvocation
           /\ UNCHANGED <<templates, template_loads, char_img, match,
                          char_contours, app, now>>
       ELSE IF key = "esc" THEN StopApp
       ELSE UNCHANGED vars

\* run() ends when the overlay's main loop ends, and calls stop()
\* (main.py:148-154).
stop ==
    /\ app = "running"
    /\ StopApp

Return(i) ==
    [j \in 1 .. Len(invocations) - 1 |->
        IF j < i THEN invocations[j] ELSE invocations[j + 1]]

\* process_screen that goes on without a frame.
AfterCaptureNoAbort(frame, i) ==
    [invocations EXCEPT ![i] = "detect_chart"]

\* Where process_screen goes after the capture (main.py:80-85): it returns
\* when capture_screen returned None.
AfterCapture(frame, i) ==
    IF frame = NoImage THEN Return(i)
    ELSE [invocations EXCEPT ![i] = "detect_chart"]

\* process_screen up to the capture (main.py:76-82).  capture_screen logs
\* its own failure (screenshot.py:34-36) before process_screen logs it.
process_screen_capture(i) ==
    /\ invocations[i] = "capture"
    /\ \E frame \in ScreenValues \cup {NoImage} :
        /\ img' = frame
        /\ errors' = IF frame = NoImage
                     THEN errors \cup {"Screenshot capture failed",
                                       "Screen capture failed"}
                     ELSE errors
        /\ invocations' = AfterCapture(frame, i)
    /\ overlay' = [overlay EXCEPT !.status = "Capturing screen..."]
    /\ UNCHANGED <<fusionVars, analysisVars, ocrVars, ocrRest, verdict,
                   app, now, last_trigger_time, signals>>

\* process_screen that stops when the frame is not a chart.
AfterChartGated(v, i) ==
    IF v.is_chart THEN [invocations EXCEPT ![i] = "ocr"] ELSE Return(i)

\* Where process_screen goes after detect_chart (main.py:84-95): the
\* verdict decides whether an event is logged, and the OCR comes next in
\* both cases.
AfterChart(v, i) == [invocations EXCEPT ![i] = "ocr"]

\* process_screen: the chart detection (main.py:84-91).
process_screen_chart(i) ==
    /\ invocations[i] = "detect_chart"
    /\ verdict' = detect_chart(img)
    /\ invocations' = AfterChart(detect_chart(img), i)
    /\ UNCHANGED <<fusionVars, analysisVars, img, ocrVars, ocrRest,
                   app, now, last_trigger_time, signals, sinkVars>>

\* process_screen from the OCR on (main.py:93-129): without a ticker it
\* shows "No ticker found" and returns, with one it shows the ticker, runs
\* the analysis on what the providers answer and shows the recommendation.
process_screen_ocr(i) ==
    /\ invocations[i] = "ocr"
    /\ LET r == detect_ticker(img, templates)
       IN  /\ ticker' = r.ticker
           /\ match_calls' = r.calls
           /\ IF r.ticker = << >>
              THEN /\ overlay' = [overlay EXCEPT !.status = "No ticker found"]
                   /\ UNCHANGED <<fusionVars, analysisVars>>
              ELSE \E sd \in ProviderValues, hl \in NewsValues :
                       /\ provider' = sd
                       /\ headlines' = hl
                       /\ AnalyzeStockCall(r.ticker, sd, hl)
                       /\ overlay' =
                              [status |-> "Ready", ticker |-> r.ticker,
                               recommendation |->
                                   make_recommendation(sd,
                                       WholePercent(analyze_sentiment(hl)[1]))]
    /\ invocations' = Return(i)
    /\ UNCHANGED <<img, templates, ocrRest, verdict, errors,
                   app, now, last_trigger_time, signals>>

Next ==
    \/ setup
    \/ setup_fails
    \/ run
    \/ Tick
    \/ \E key \in Keys : on_key_press(key)
    \/ stop
    \/ \E i \in DOMAIN invocations : process_screen_capture(i)
    \/ \E i \in DOMAIN invocations : process_screen_chart(i)
    \/ \E i \in DOMAIN invocations : process_screen_ocr(i)

Spec == Init /\ [][Next]_vars

-----------------------------------------------------------------------------
(***************************************************************************)
(* Properties of make_recommendation (SpecFusion)                          *)
(***************************************************************************)

Returned == recommendation # NoRecommendation

\* C1: for a present snapshot, make_recommendation returns the result of the
\* point accumulation: 50, +10 for a trend above 2 (BUY) or below -2 (SELL),
\* +10 for a volume trend above 20, +15 for a sentiment above 20 (BUY) or
\* below -20 (SELL); both BUY or both SELL give that action with 15 more,
\* capped at 100; a trend signal the sentiment does not contradict gives the
\* trend's action; everything else gives HOLD with 10 less, but at least 50.
\* {trend 3, volume_trend 25} with sentiment 30 gives (BUY, 100) and
\* {trend -3, volume_trend 5} with sentiment 0 gives (SELL, 60).
C1_PointAccumulation ==
    (Returned /\ stock_data.present) =>
        LET t == stock_data.trend
            v == stock_data.volume_trend
            s == sentiment_score
            up == t > 2
            down == t < -2
            pos == s > 20
            neg == s < -20
            points == 50 + (IF up \/ down THEN 10 ELSE 0)
                         + (IF v > 20 THEN 10 ELSE 0)
                         + (IF pos \/ neg THEN 15 ELSE 0)
        IN  /\ (up /\ pos) => recommendation = <<"BUY", Min(points + 15, 100)>>
            /\ (down /\ neg) =>
                   recommendation = <<"SELL", Min(points + 15, 100)>>
            /\ (up /\ ~pos /\ ~neg) => recommendation = <<"BUY", points>>
            /\ (down /\ ~pos /\ ~neg) => recommendation = <<"SELL", points>>
            /\ ((~up /\ ~down) \/ (up /\ neg) \/ (down /\ pos)) =>
                   recommendation = <<"HOLD", Max(points - 10, 50)>>
            /\ (t = 3 /\ v = 25 /\ s = 30) => recommendation = <<"BUY", 100>>
            /\ (t = -3 /\ v = 5 /\ s = 0) => recommendation = <<"SELL", 60>>

\* make_recommendation has returned for {trend 3, volume_trend 25} and
\* sentiment 30.
C1_Witness ==
    /\ Returned
    /\ stock_data = StockData(3, 25)
    /\ sentiment_score = 30
    /\ recommendation = <<"BUY", 100>>

\* C2: without a snapshot make_recommendation returns (HOLD, 50), whatever
\* the sentiment score.
C2_AbsentSnapshotHolds ==
    (Returned /\ ~stock_data.present) => recommendation = <<"HOLD", 50>>

\* make_recommendation has returned for an absent snapshot and sentiment 50.
C2_Witness ==
    /\ Returned
    /\ ~stock_data.present
    /\ sentiment_score = 50
    /\ recommendation = <<"HOLD", 50>>

\* C3: the confidence make_recommendation returns is a whole number from 0
\* to 100, and from 50 to 100 when the action is HOLD.
C3_ConfidenceRange ==
    Returned =>
        /\ recommendation[2] \in 0 .. 100
        /\ recommendation[1] = "HOLD" => recommendation[2] \in 50 .. 100

\* make_recommendation has returned HOLD on the floor of 50 for a present
\* snapshot whose points less 10 are below 50.
C3_Witness ==
    /\ Returned
    /\ stock_data.present
    /\ stock_data.volume_trend <= 20
    /\ sentiment_score = 0
    /\ recommendation = <<"HOLD", 50>>

-----------------------------------------------------------------------------
(***************************************************************************)
(* Properties of detect_ticker (SpecOcr)                                   *)
(***************************************************************************)

TickerReturned == ticker # NoTicker

\* The contours of the frame that pass the size bounds.
CharSized == {i \in DOMAIN img.contours : IsCharSized(img.contours[i])}

\* The character the classifier gives the glyph of contour i, or None.
Classified(i) == match_character(img.contours[i].glyph, templates)[1]

\* C4: when the number of glyph regions is outside 3..5, detect_ticker
\* returns the empty string and classifies no region.
C4_LengthGate ==
    (TickerReturned /\ img.valid /\ Cardinality(CharSized) \notin 3 .. 5) =>
        /\ ticker = << >>
        /\ match_calls = 0

\* detect_ticker has returned for six regions every one of which the
\* classifier would have matched.
C4_Witness ==
    /\ TickerReturned
    /\ img.valid
    /\ Cardinality(CharSized) = 6
    /\ \A i \in CharSized : Classified(i) # None
    /\ ticker = << >>
    /\ match_calls = 0

\* C5: with 3 to 5 regions of which at least one fails template matching,
\* detect_ticker returns the empty string, wherever the failing region is.
C5_AllOrNothing ==
    (/\ TickerReturned
     /\ img.valid
     /\ Cardinality(CharSized) \in 3 .. 5
     /\ \E i \in CharSized : Classified(i) = None) => ticker = << >>

\* detect_ticker has returned for four regions of which three match and the
\* last one in reading order does not; it has classified all four.
C5_Witness ==
    /\ TickerReturned
    /\ img.valid
    /\ Cardinality(CharSized) = 4
    /\ Cardinality({i \in CharSized : Classified(i) = None}) = 1
    /\ match_calls = 4
    /\ ticker = << >>

\* C6: a non-empty ticker has 3 to 5 characters, one for each region, and
\* its i-th character is the matched character of the i-th region in the
\* order of ascending x.
C6_TickerInReadingOrder ==
    (TickerReturned /\ ticker # << >>) =>
        /\ Len(ticker) \in 3 .. 5
        /\ Len(ticker) = Cardinality(CharSized)
        /\ \E order \in [1 .. Len(ticker) -> CharSized] :
            /\ \A a, b \in 1 .. Len(ticker) :
                a < b => /\ order[a] # order[b]
                         /\ img.contours[order[a]].x <= img.contours[order[b]].x
            /\ \A a \in 1 .. Len(ticker) : ticker[a] = Classified(order[a])

\* detect_ticker has returned a ticker for regions that findContours did
\* not yield from left to right, with different characters.
C6_Witness ==
    /\ TickerReturned
    /\ Len(ticker) = 3
    /\ ticker[1] # ticker[2]
    /\ \E i, j \in CharSized : i < j /\ img.contours[i].x > img.contours[j].x

-----------------------------------------------------------------------------
(***************************************************************************)
(* Properties of detect_chart (SpecChart)                                  *)
(***************************************************************************)

VerdictReturned == verdict # NoVerdict

\* C7: with fewer than 5 line segments detect_chart returns is_chart =
\* false and confidence = 0, grid or no grid.
C7_FewLinesNoConfidence ==
    (VerdictReturned /\ Len(img.lines) < 5) =>
        /\ verdict.is_chart = FALSE
        /\ verdict.confidence = 0

\* C8: the confidence detect_chart reports is the line-pattern confidence
\* plus 20, capped at 100, when the line pattern matched and a grid is
\* present, and the line-pattern confidence otherwise; is_chart is true
\* exactly when the line pattern matched and that confidence is at least 60.
C8_GridBoostOnlyOnMatch ==
    VerdictReturned =>
        LET line == analyze_line_pattern(img.lines)
            grid == img.valid /\ img.rect_count > 5
            boosted == IF line[1] /\ grid THEN Min(line[2] + 20, 100)
                       ELSE line[2]
        IN  /\ verdict.confidence = boosted
            /\ verdict.is_chart = (line[1] /\ boosted >= 60)

-----------------------------------------------------------------------------
(***************************************************************************)
(* Properties of the trigger handling (Spec)                               *)
(***************************************************************************)

\* C9: a CTRL signal handled less than the cooldown after the previous
\* accepted signal starts no process_screen call, and any two accepted
\* signals are at least the cooldown apart.
C9_CooldownSuppresses ==
    \A j, k \in DOMAIN signals :
        (j < k /\ signals[j].accepted) =>
            /\ ((\A m \in (j + 1) .. (k - 1) : ~signals[m].accepted)
                /\ signals[k].time - signals[j].time < trigger_cooldown)
               => ~signals[k].accepted
            /\ signals[k].accepted =>
                   signals[k].time - signals[j].time >= trigger_cooldown

\* An accepted signal, then one ignored inside the cooldown, then one
\* accepted after it.
C9_Witness ==
    /\ Len(signals) >= 3
    /\ signals[1].accepted
    /\ ~signals[2].accepted
    /\ signals[2].time - signals[1].time < trigger_cooldown
    /\ signals[3].accepted

\* C10: at most one process_screen call is in progress at any time, also
\* when it lasts longer than the cooldown.
C10_OneInvocation == Len(invocations) <= 1

\* A process_screen call that is still in progress more than a cooldown
\* after its trigger, while the listener is running.
C10_Witness ==
    /\ app = "running"
    /\ Len(invocations) = 1
    /\ invocations[1] = "ocr"
    /\ now - last_trigger_time > trigger_cooldown

-----------------------------------------------------------------------------
(***************************************************************************)
(* Properties of analyze_sentiment and analyze_stock (SpecAnalysis)        *)
(***************************************************************************)

SentimentReturned == sentiment # NoSentiment

\* C11: for an empty headline list analyze_sentiment returns the score 0
\* and the label Neutral, and logs no error.
C11_EmptyListNeutral ==
    (SentimentReturned /\ headlines = << >>) =>
        /\ sentiment[1].num = 0
        /\ sentiment[2] = "Neutral"
        /\ errors = {}

C11_Witness ==
    /\ SentimentReturned
    /\ headlines = << >>
    /\ sentiment[2] = "Neutral"

\* C12: for a non-empty headline list the label is Positive exactly when
\* 100 * sum / (3 * count) is above 20, Negative exactly when it is below
\* -20, and Neutral otherwise: a score of exactly 20 or -20 is Neutral.
C12_LabelThresholds ==
    (SentimentReturned /\ headlines # << >>) =>
        LET count == Len(headlines)
            sum == TotalScore(headlines)
        IN  /\ sentiment[2] = "Positive" <=> 100 * sum > 20 * (3 * count)
            /\ sentiment[2] = "Negative" <=> 100 * sum < (0 - 20) * (3 * count)
            /\ sentiment[2] = "Neutral" <=>
                   /\ 100 * sum <= 20 * (3 * count)
                   /\ 100 * sum >= (0 - 20) * (3 * count)

\* A list whose normalized score is exactly 20 has been labelled Neutral.
C12_Witness ==
    /\ SentimentReturned
    /\ headlines # << >>
    /\ 100 * TotalScore(headlines) = 20 * (3 * Len(headlines))
    /\ sentiment[2] = "Neutral"

AnalysisReturned == result # NoResult

\* C15: when the price provider fails, analyze_stock has called it once
\* and returns a result with the ticker, no price data, the sentiment label
\* of the headlines, HOLD at confidence 50, no price trend and no volume
\* trend, and the number of headlines as news_count.
C15_ProviderFailure ==
    (AnalysisReturned /\ provider = NoStockData) =>
        /\ price_fetches = 1
        /\ result.ticker = ticker
        /\ result.price_data = NoStockData
        /\ result.sentiment = analyze_sentiment(headlines)[2]
        /\ result.recommendation = "HOLD"
        /\ result.confidence = 50
        /\ result.metadata.price_trend = Null
        /\ result.metadata.volume_trend = Null
        /\ result.metadata.news_count = Len(headlines)

\* The provider has failed on a ticker whose headlines are Positive.
C15_Witness ==
    /\ AnalysisReturned
    /\ provider = NoStockData
    /\ Len(headlines) = 2
    /\ result.sentiment = "Positive"
    /\ result.recommendation = "HOLD"
    /\ result.metadata.price_trend = Null

\* C18: the normalized score of analyze_sentiment is 100 * sum /
\* max(3 * count, 1) and lies between -100 and 100.
C18_ScoreInRange ==
    SentimentReturned =>
        /\ sentiment[1] =
               Ratio(100 * TotalScore(headlines),
                     Max(3 * Len(headlines), 1))
        /\ ~Greater(sentiment[1], 100)
        /\ ~Less(sentiment[1], -100)

-----------------------------------------------------------------------------
(***************************************************************************)
(* Properties of process_screen (Spec)                                     *)
(***************************************************************************)

\* C13: the chart verdict neither blocks nor alters the ticker recognition:
\* whatever detect_chart returned, a process_screen call that got that far
\* has called detect_ticker, the ticker is the one detect_ticker finds in
\* the characters of the frame alone, and the rest of the pipeline ran or
\* not by the ticker alone.
C13_VerdictDoesNotGateOcr ==
    (VerdictReturned /\ invocations = << >>) =>
        /\ ticker # NoTicker
        /\ ticker =
               detect_ticker(Frame(TRUE, img.contours, << >>, 0),
                             templates).ticker
        /\ (ticker = << >>) <=> (result = NoResult)
        /\ (ticker = << >>) <=> (overlay.ticker = NoTicker)

\* A frame that is no chart has gone through the ticker recognition.
C13_Witness ==
    /\ VerdictReturned
    /\ ~verdict.is_chart
    /\ invocations = << >>
    /\ ticker = << >>
    /\ overlay.status = "No ticker found"

\* C14: when capture_screen returns no image the process_screen call
\* ends there: no later stage runs without a frame, nothing of chart
\* detection, OCR, fetch, sentiment or fusion has run, neither ticker nor
\* recommendation has been sent to the overlay, and the error is logged.
C14_CaptureFailureAborts ==
    /\ \A i \in DOMAIN invocations :
           invocations[i] # "capture" => img # NoImage
    /\ (overlay.status # "" /\ img = NoImage) =>
           /\ invocations = << >>
           /\ verdict = NoVerdict
           /\ ticker = NoTicker
           /\ match_calls = 0
           /\ price_fetches = 0
           /\ sentiment = NoSentiment
           /\ recommendation = NoRecommendation
           /\ result = NoResult
           /\ overlay.ticker = NoTicker
           /\ overlay.recommendation = NoRecommendation
           /\ "Screen capture failed" \in errors

C14_Witness ==
    /\ overlay.status = "Capturing screen..."
    /\ img = NoImage
    /\ invocations = << >>
    /\ \E k \in DOMAIN signals : signals[k].accepted
    /\ "Screen capture failed" \in errors

-----------------------------------------------------------------------------
(***************************************************************************)
(* Properties of match_character (SpecMatch) and of segment_characters     *)
(* (SpecSegment)                                                           *)
(***************************************************************************)

MatchReturned == match # NotMatched

\* The largest correlation of the character image over the templates.
BestScore ==
    CHOOSE s \in {Correlation(char_img, templates[i].char) :
                      i \in DOMAIN templates} :
        \A i \in DOMAIN templates : Correlation(char_img, templates[i].char) <= s

\* The first template, in the order of the dict, with the largest
\* correlation.
FirstBest ==
    CHOOSE i \in DOMAIN templates :
        /\ Correlation(char_img, templates[i].char) = BestScore
        /\ \A j \in 1 .. i - 1 :
               Correlation(char_img, templates[j].char) < BestScore

\* C16: match_character returns the character and the score of the
\* template with the largest correlation, the first one in the order A-Z,
\* 0-9 on a tie, when that score is at least OCR_MATCH_THRESHOLD; otherwise,
\* and for an empty template set, it returns (None, 0).
C16_BestTemplateOrNone ==
    MatchReturned =>
        IF templates # << >> /\ BestScore >= OCR_MATCH_THRESHOLD
            THEN match = <<templates[FirstBest].char, BestScore>>
            ELSE match = <<None, 0>>

SegmentReturned == char_contours # NotSegmented

\* How often box c is in the list cs.
CountOf(cs, c) == Cardinality({i \in DOMAIN cs : cs[i] = c})

\* C20: segment_characters returns exactly the boxes whose width is in
\* MIN_CHAR_WIDTH..MAX_CHAR_WIDTH and whose height is in
\* MIN_CHAR_HEIGHT..MAX_CHAR_HEIGHT, each as often as findContours yielded
\* it and unaltered, in the order of non-decreasing x.
C20_SizedBoxesByX ==
    SegmentReturned =>
        /\ \A i \in DOMAIN char_contours :
               \E j \in DOMAIN img.contours : char_contours[i] = img.contours[j]
        /\ \A j \in DOMAIN img.contours :
               LET c == img.contours[j]
               IN  CountOf(char_contours, c) =
                       IF /\ c.w \in MIN_CHAR_WIDTH .. MAX_CHAR_WIDTH
                          /\ c.h \in MIN_CHAR_HEIGHT .. MAX_CHAR_HEIGHT
                       THEN CountOf(img.contours, c) ELSE 0
        /\ \A a, b \in DOMAIN char_contours :
               a < b => char_contours[a].x <= char_contours[b].x

\* Two overlapping boxes on the bounds, found from right to left, have been
\* returned from left to right, and a box beyond a bound has been dropped.
C20_Witness ==
    /\ SegmentReturned
    /\ Len(img.contours) = 3
    /\ Len(char_contours) = 2
    /\ img.contours[1].x > img.contours[2].x
    /\ char_contours[1] = Contour(1, 50, 60, GlyphB)
    /\ char_contours[2] = Contour(2, 20, 30, GlyphA)

-----------------------------------------------------------------------------
(***************************************************************************)
(* The template dict over the life of the application (Spec) and the line  *)
(* pattern (SpecChart)                                                     *)
(***************************************************************************)

Segments(lo, hi) ==
    {k \in DOMAIN img.lines : lo <= img.lines[k] /\ img.lines[k] <= hi}

\* The line-pattern confidence detect_chart reports in its metadata
\* (chart_detection.py:160, 165).
LineConfidence == verdict.metadata[3]

\* C19 as stated: with at least 5 segments the line pattern matches exactly
\* when H/N > 0.6 and V/N < 0.3, with the confidence min(100, 100 * H / N
\* rounded to the nearest whole number), and the confidence is 0 without a
\* match.
C19_RoundedConfidence ==
    (VerdictReturned /\ Len(img.lines) >= 5) =>
        LET N == Len(img.lines)
            H == Cardinality(Segments(-30, 30))
            V == Cardinality(Segments(60, 120))
        IN  IF 5 * H > 3 * N /\ 10 * V < 3 * N
                THEN /\ verdict.is_chart
                     /\ LineConfidence = Min(100, (200 * H + N) \div (2 * N))
                ELSE /\ ~verdict.is_chart
                     /\ LineConfidence = 0

\* C19, amended: with at least 5 segments the line pattern matches exactly
\* when H/N > 0.6 and V/N < 0.3, with the confidence min(100, 100 * H / N
\* cut to a whole number), and the confidence is 0 without a match.
C19_TruncatedConfidence ==
    (VerdictReturned /\ Len(img.lines) >= 5) =>
        LET N == Len(img.lines)
            H == Cardinality(Segments(-30, 30))
            V == Cardinality(Segments(60, 120))
        IN  IF 5 * H > 3 * N /\ 10 * V < 3 * N
                THEN /\ verdict.is_chart
                     /\ LineConfidence = Min(100, (100 * H) \div N)
                ELSE /\ ~verdict.is_chart
                     /\ LineConfidence = 0

\* Four of six segments are horizontal and none is vertical: the
\* confidence is 66.
C19_Witness ==
    /\ VerdictReturned
    /\ Len(img.lines) = 6
    /\ Cardinality(Segments(-30, 30)) = 4
    /\ Cardinality(Segments(60, 120)) = 0
    /\ verdict.is_chart
    /\ LineConfidence = 66

-----------------------------------------------------------------------------
(***************************************************************************)
(* The cooldown window (Spec)                                              *)
(***************************************************************************)

\* The accepted signals before signal k.
AcceptedBefore(k) == {j \in 1 .. k - 1 : signals[j].accepted}

\* The clock reading of the last signal accepted before signal k, and the
\* initial last_trigger_time (main.py:21) when there is none.
LastAcceptedTime(k) ==
    IF AcceptedBefore(k) = {} THEN 0
    ELSE signals[CHOOSE j \in AcceptedBefore(k) :
                     \A m \in AcceptedBefore(k) : m <= j].time

\* C21: last_trigger_time is the time of the last accepted signal, ignored
\* signals leave it alone; a signal handled at least the cooldown after the
\* last accepted one is accepted, however many signals were ignored in
\* between; the first signal is accepted.
C21_WindowFromLastAccepted ==
    /\ last_trigger_time = LastAcceptedTime(Len(signals) + 1)
    /\ \A k \in DOMAIN signals :
           signals[k].time - LastAcceptedTime(k) >= trigger_cooldown
               => signals[k].accepted
    /\ signals # << >> => signals[1].accepted

\* A signal was accepted, one was ignored inside the cooldown, and the
\* next, exactly the cooldown after the accepted one and less than the
\* cooldown after the ignored one, was accepted.
C21_Witness ==
    /\ Len(signals) = 3
    /\ signals[1].accepted
    /\ ~signals[2].accepted
    /\ signals[2].time > signals[1].time
    /\ signals[3].time - signals[1].time = trigger_cooldown
    /\ signals[3].time - signals[2].time < trigger_cooldown
    /\ signals[3].accepted
    /\ last_trigger_time = signals[3].time

=============================================================================
